---- MODULE Spec2Model ----
(***************************************************************************)
(* Model of the correlation-analysis engine of the time-series tool:      *)
(* ACFPACFAnalyzer (src/src/analysis/acf_pacf.py).                        *)
(*                                                                         *)
(* The analyzer is stateless apart from confidence_level; every operation *)
(* is a call with arguments and a result.  A state of the model is one    *)
(* call on the analyzer: its name (op), its arguments (args), whether it  *)
(* has run (pc) and what it returned or raised (ret); calls counts the     *)
(* calls made on the analyzer so far, the current one included.           *)
(*                                                                         *)
(* The application (src/main.py) keeps two frames in st.session_state:    *)
(* data and processed_data (st_data, st_processed_data).  A step of the   *)
(* application is one run of the script on a page, with the widget values *)
(* of that run as inputs; processed_from remembers the data that          *)
(* processed_data was computed from, imported whether the last run wrote  *)
(* data.                                                                   *)
(*                                                                         *)
(* Numbers.  Coefficients handed to suggest_arima_order and _find_cutoff  *)
(* are reals, modelled in thousandths (1000 is 1.0).  A threshold is a    *)
(* real of the form (c/1000)/sqrt(d), kept as the record [c, d], so that  *)
(* 1.96/sqrt(n) is [c |-> 1960, d |-> n] and comparisons are exact.       *)
(***************************************************************************)
EXTENDS Integers, Sequences, FiniteSets, TLC

VARIABLES pc, op, args, ret, confidence_level, calls,
          st_data, st_processed_data, processed_from, imported

\* st.session_state.data and st.session_state.processed_data, what
\* processed_data was computed from, and whether the last run of the script
\* wrote st.session_state.data
session_state == <<st_data, st_processed_data, processed_from, imported>>

vars == <<pc, op, args, ret, confidence_level, calls, session_state>>

-----------------------------------------------------------------------------
(* Bounds of the model *)

\* longest coefficient sequence (lag 0 excluded) handed to the advisor
MaxLen == 5
\* largest max_order / max_scan tried
MaxOrder == 6

\* longest series handed to calculate_acf / calculate_pacf
MaxSeries == 4
\* largest nlags tried (lags beyond the series length included)
MaxLag == 3

\* largest `lags` handed to ljung_box_test
MaxLjungLags == 3

\* most calls made on one analyzer
MaxCalls == 3

\* p-values (thousandths) a hypothesis test may report: below, at and above 0.05
PValues == {10, 50, 100}

\* most rows of a frame handed to handle_missing_values
MaxRows == 3

\* most preprocessing operations selected in one run of the import page
MaxOptions == 2

\* values of a series, and the significance levels (thousandths) tried
SeriesValues == {0, 1, 2}
Alphas == {10, 50}

\* coefficient values (thousandths) of the correlograms handed to the advisor:
\* one clearly insignificant, one at -1.0
Coeffs == {-1000, 100}

\* coefficient values and thresholds (thousandths) of direct _find_cutoff calls:
\* 500 lies exactly on the threshold 500
ScanCoeffs == {-600, 100, 500}
ScanThresholds == {0, 500, 700}

-----------------------------------------------------------------------------
(* Values *)

\* Optional[int]: None, or Some(k)
None == << >>
Some(k) == <<k>>

\* Python truthiness of an Optional[int]: None and 0 are falsy
Truthy(c) == c # None /\ c[1] # 0

Min(a, b) == IF a <= b THEN a ELSE b

Abs(v) == IF v < 0 THEN -v ELSE v

\* a < threshold, for a in thousandths and threshold = (c/1000)/sqrt(d), c >= 0
Lt(a, threshold) == a < 0 \/ a * a * threshold.d < threshold.c * threshold.c

\* all sequences over S of length lo..hi
SeqsOf(S, lo, hi) == UNION {[1..n -> S] : n \in lo..hi}

-----------------------------------------------------------------------------
(* _find_cutoff *)

\* abs(values[i]) < threshold, without the abs
IsBelowNoAbs(v, threshold) == Lt(v, threshold)

\* abs(values[i]) < threshold
IsBelow(v, threshold) == Lt(Abs(v), threshold)

\* range(len(values)): the scan ignores max_order
ScanLimitAll(values, max_order) == Len(values)

\* range(min(len(values), max_order))
ScanLimit(values, max_order) == Min(Len(values), max_order)

\* return i: the 0-based position instead of the 1-based lag
CutoffLagZeroBased(i) == Some(i)

\* return i + 1
CutoffLag(i) == Some(i + 1)

\* a candidate is returned on its own point, whatever follows it
ConfirmedSinglePoint(values, threshold, i) == TRUE

\* the body of "if abs(values[i]) < threshold": TRUE when the loop returns at i
\* (i is the 0-based Python index; values[i] is values[i + 1] here)
Confirmed(values, threshold, i) ==
    IF i < Len(values) - 2
    THEN \A j \in i..(Min(i + 3, Len(values)) - 1) : IsBelow(values[j + 1], threshold)
    ELSE TRUE

RECURSIVE ScanFrom(_, _, _, _)
ScanFrom(values, threshold, max_order, i) ==
    IF i >= ScanLimit(values, max_order)
    THEN None
    ELSE IF IsBelow(values[i + 1], threshold) /\ Confirmed(values, threshold, i)
         THEN CutoffLag(i)
         ELSE ScanFrom(values, threshold, max_order, i + 1)

find_cutoff(values, threshold, max_order) == ScanFrom(values, threshold, max_order, 0)

-----------------------------------------------------------------------------
(* suggest_arima_order *)

Suggestion(model, order, explanation) ==
    [model |-> model, order |-> order, explanation |-> explanation]

\* threshold = 1.96 / np.sqrt(n)
Threshold(n) == [c |-> 1960, d |-> n]

DefaultSuggestions ==
    << Suggestion("AR", <<1, 0, 0>>, <<"default AR(1)">>),
       Suggestion("MA", <<0, 0, 1>>, <<"default MA(1)">>),
       Suggestion("ARMA", <<1, 0, 1>>, <<"default ARMA(1,1)">>) >>

\* the AR and MA rules test the wrong correlogram
DecisionTableSwappedTests(acf_cutoff, pacf_cutoff) ==
    IF acf_cutoff # None /\ pacf_cutoff = None
    THEN << Suggestion("AR", <<acf_cutoff[1], 0, 0>>, <<"PACF cutoff", acf_cutoff[1]>>) >>
    ELSE IF pacf_cutoff # None /\ acf_cutoff = None
    THEN << Suggestion("MA", <<0, 0, pacf_cutoff[1]>>, <<"ACF cutoff", pacf_cutoff[1]>>) >>
    ELSE IF acf_cutoff = None /\ pacf_cutoff = None
    THEN << Suggestion("ARMA", <<1, 0, 1>>, <<"both tail off">>) >>
    ELSE IF Truthy(pacf_cutoff) /\ Truthy(acf_cutoff)
         THEN << Suggestion("ARMA", <<pacf_cutoff[1], 0, acf_cutoff[1]>>,
                            <<"ARMA", pacf_cutoff[1], acf_cutoff[1]>>) >>
         ELSE << >>

\* the MA rule puts the cutoff in p instead of q
DecisionTableMaInP(acf_cutoff, pacf_cutoff) ==
    IF pacf_cutoff # None /\ acf_cutoff = None
    THEN << Suggestion("AR", <<pacf_cutoff[1], 0, 0>>, <<"PACF cutoff", pacf_cutoff[1]>>) >>
    ELSE IF acf_cutoff # None /\ pacf_cutoff = None
    THEN << Suggestion("MA", <<acf_cutoff[1], 0, 0>>, <<"ACF cutoff", acf_cutoff[1]>>) >>
    ELSE IF acf_cutoff = None /\ pacf_cutoff = None
    THEN << Suggestion("ARMA", <<1, 0, 1>>, <<"both tail off">>) >>
    ELSE IF Truthy(pacf_cutoff) /\ Truthy(acf_cutoff)
         THEN << Suggestion("ARMA", <<pacf_cutoff[1], 0, acf_cutoff[1]>>,
                            <<"ARMA", pacf_cutoff[1], acf_cutoff[1]>>) >>
         ELSE << >>

\* the mixed rule swaps p and q
DecisionTableSwappedPQ(acf_cutoff, pacf_cutoff) ==
    IF pacf_cutoff # None /\ acf_cutoff = None
    THEN << Suggestion("AR", <<pacf_cutoff[1], 0, 0>>, <<"PACF cutoff", pacf_cutoff[1]>>) >>
    ELSE IF acf_cutoff # None /\ pacf_cutoff = None
    THEN << Suggestion("MA", <<0, 0, acf_cutoff[1]>>, <<"ACF cutoff", acf_cutoff[1]>>) >>
    ELSE IF acf_cutoff = None /\ pacf_cutoff = None
    THEN << Suggestion("ARMA", <<1, 0, 1>>, <<"both tail off">>) >>
    ELSE IF Truthy(pacf_cutoff) /\ Truthy(acf_cutoff)
         THEN << Suggestion("ARMA", <<acf_cutoff[1], 0, pacf_cutoff[1]>>,
                            <<"ARMA", acf_cutoff[1], pacf_cutoff[1]>>) >>
         ELSE << >>

\* the tailing-off rule proposes ARIMA(1,1,1): d is 1
DecisionTableDifferenced(acf_cutoff, pacf_cutoff) ==
    IF pacf_cutoff # None /\ acf_cutoff = None
    THEN << Suggestion("AR", <<pacf_cutoff[1], 0, 0>>, <<"PACF cutoff", pacf_cutoff[1]>>) >>
    ELSE IF acf_cutoff # None /\ pacf_cutoff = None
    THEN << Suggestion("MA", <<0, 0, acf_cutoff[1]>>, <<"ACF cutoff", acf_cutoff[1]>>) >>
    ELSE IF acf_cutoff = None /\ pacf_cutoff = None
    THEN << Suggestion("ARMA", <<1, 1, 1>>, <<"both tail off">>) >>
    ELSE IF Truthy(pacf_cutoff) /\ Truthy(acf_cutoff)
         THEN << Suggestion("ARMA", <<pacf_cutoff[1], 0, acf_cutoff[1]>>,
                            <<"ARMA", pacf_cutoff[1], acf_cutoff[1]>>) >>
         ELSE << >>

\* the if / elif / elif / else chain that fills `suggestions`
DecisionTable(acf_cutoff, pacf_cutoff) ==
    IF pacf_cutoff # None /\ acf_cutoff = None
    THEN << Suggestion("AR", <<pacf_cutoff[1], 0, 0>>, <<"PACF cutoff", pacf_cutoff[1]>>) >>
    ELSE IF acf_cutoff # None /\ pacf_cutoff = None
    THEN << Suggestion("MA", <<0, 0, acf_cutoff[1]>>, <<"ACF cutoff", acf_cutoff[1]>>) >>
    ELSE IF acf_cutoff = None /\ pacf_cutoff = None
    THEN << Suggestion("ARMA", <<1, 0, 1>>, <<"both tail off">>) >>
    ELSE IF Truthy(pacf_cutoff) /\ Truthy(acf_cutoff)
         THEN << Suggestion("ARMA", <<pacf_cutoff[1], 0, acf_cutoff[1]>>,
                            <<"ARMA", pacf_cutoff[1], acf_cutoff[1]>>) >>
         ELSE << >>

\* the defaults replace the suggestions found instead of filling an empty list
WithDefaultsInverted(suggestions) ==
    IF suggestions # << >> THEN << >> ELSE DefaultSuggestions

\* if not suggestions: suggestions.extend([...three defaults...])
WithDefaults(suggestions) ==
    IF suggestions = << >> THEN suggestions \o DefaultSuggestions ELSE suggestions

\* the threshold follows the correlogram's alpha: 2.576 / sqrt(n) at 0.01
AdvisorThresholdFromAlpha(acf_result) ==
    [c |-> IF acf_result.alpha = 10 THEN 2576 ELSE 1960, d |-> Len(Tail(acf_result.acf_values))]

\* the threshold suggest_arima_order derives from a correlogram:
\* n = len(acf_values) after the lag-0 coefficient is dropped
AdvisorThreshold(acf_result) == Threshold(Len(Tail(acf_result.acf_values)))

suggest_arima_order(acf_result, pacf_result, max_order) ==
    LET acf_values == Tail(acf_result.acf_values)
        pacf_values == Tail(pacf_result.pacf_values)
        threshold == AdvisorThreshold(acf_result)
        acf_cutoff == find_cutoff(acf_values, threshold, max_order)
        pacf_cutoff == find_cutoff(pacf_values, threshold, max_order)
    IN  [suggestions |-> WithDefaults(DecisionTable(acf_cutoff, pacf_cutoff)),
         acf_cutoff |-> acf_cutoff,
         pacf_cutoff |-> pacf_cutoff,
         threshold |-> threshold]

-----------------------------------------------------------------------------
(* Exact arithmetic for the coefficients computed from a series *)

RECURSIVE GCD(_, _)
GCD(a, b) == IF b = 0 THEN a ELSE GCD(b, a % b)

\* float('nan'), as a fraction
NaN == [num |-> 0, den |-> 0]
IsNaN(q) == q.den = 0

\* the number n / d in lowest terms; 0 / 0 is nan
Rat(n, d) ==
    IF d = 0 THEN NaN
    ELSE LET g == GCD(Abs(n), Abs(d))
             sgn == IF d < 0 THEN -1 ELSE 1
         IN  [num |-> sgn * (n \div g), den |-> sgn * (d \div g)]

Zero == Rat(0, 1)
One == Rat(1, 1)

\* sums and products cancel common factors before multiplying
RAdd(p, q) ==
    IF IsNaN(p) \/ IsNaN(q) THEN NaN
    ELSE LET g == GCD(p.den, q.den)
         IN  Rat(p.num * (q.den \div g) + q.num * (p.den \div g), (p.den \div g) * q.den)
RNeg(p) == [num |-> -p.num, den |-> p.den]
RSub(p, q) == RAdd(p, RNeg(q))
RMul(p, q) ==
    IF IsNaN(p) \/ IsNaN(q) THEN NaN
    ELSE LET g1 == GCD(Abs(p.num), q.den)
             g2 == GCD(Abs(q.num), p.den)
         IN  Rat((p.num \div g1) * (q.num \div g2), (p.den \div g2) * (q.den \div g1))
\* q is not zero
RDiv(p, q) ==
    IF IsNaN(p) \/ IsNaN(q) THEN NaN
    ELSE RMul(p, Rat(q.den, q.num))

RECURSIVE SumTo(_, _)
\* f[1] + ... + f[k] for integers
SumTo(f, k) == IF k <= 0 THEN 0 ELSE f[k] + SumTo(f, k - 1)

RECURSIVE RSumTo(_, _)
\* f[1] + ... + f[k] for fractions
RSumTo(f, k) == IF k <= 0 THEN Zero ELSE RAdd(f[k], RSumTo(f, k - 1))

\* an end of a confidence interval: coef + sign * ppf(1 - alpha/2) * sqrt(var)
BandEnd(coef, sign, alpha, var) ==
    [coef |-> coef, sign |-> sign, alpha |-> alpha, var |-> var]

\* confint[:, c] - values: the end of the interval relative to the coefficient
\* (nan wherever the coefficient is nan)
Offset(e, q) ==
    IF IsNaN(e.coef) \/ IsNaN(q) \/ IsNaN(e.var)
    THEN BandEnd(NaN, e.sign, e.alpha, NaN)
    ELSE BandEnd(RSub(e.coef, q), e.sign, e.alpha, e.var)

-----------------------------------------------------------------------------
(* statsmodels.tsa.stattools.acf and pacf, as calculate_acf and           *)
(* calculate_pacf call them                                               *)

\* the demeaned series, times n: n * x[t] - sum(x)
Demeaned(x) == [t \in 1..Len(x) |-> Len(x) * x[t] - SumTo(x, Len(x))]

\* the lag-k autocovariance of x (full-sample denominator), times n^3;
\* 0 for k >= n, where the two slices are empty
Gamma(x, k) ==
    LET d == Demeaned(x)
    IN  SumTo([t \in 1..(Len(x) - k) |-> d[t] * d[t + k]], Len(x) - k)

\* acf(data, nlags=nlags, alpha=alpha, fft=False):
\* avf[: nlags + 1] / avf[0] and the Bartlett intervals around it.
\* The slice is clipped to the series, a constant series gives 0/0 = nan,
\* and varacf[1] = 1/nobs raises IndexError on fewer than two coefficients.
acf(x, nlags, alpha) ==
    LET m == Min(nlags + 1, Len(x))
        values == [i \in 1..m |-> Rat(Gamma(x, i - 1), Gamma(x, 0))]
        sq == [i \in 1..m |-> RMul(values[i], values[i])]
        \* varacf[k] for the 0-based lag k
        varacf(k) ==
            IF k = 0 THEN Zero
            ELSE IF k = 1 THEN Rat(1, Len(x))
            ELSE RMul(Rat(1, Len(x)),
                      RAdd(One, RMul(Rat(2, 1),
                                     RSub(RSumTo(sq, k), sq[1]))))
        confint == [i \in 1..m |->
                       << BandEnd(values[i], -1, alpha, varacf(i - 1)),
                          BandEnd(values[i], 1, alpha, varacf(i - 1)) >>]
    IN  IF m < 2 THEN [raised |-> "IndexError", value |-> << >>]
        ELSE [raised |-> "", value |-> <<values, confint>>]

RECURSIVE DurbinLevinson(_, _)
\* the coefficients of the order-k autoregression solving the Yule-Walker
\* equations toeplitz(r[:-1]) rho = r[1:], r[j] = Gamma(x, j)
DurbinLevinson(x, k) ==
    IF k = 1 THEN << Rat(Gamma(x, 1), Gamma(x, 0)) >>
    ELSE LET prev == DurbinLevinson(x, k - 1)
             num == RSub(Rat(Gamma(x, k), 1),
                         RSumTo([j \in 1..(k - 1) |->
                                    RMul(prev[j], Rat(Gamma(x, k - j), 1))], k - 1))
             den == RSub(Rat(Gamma(x, 0), 1),
                         RSumTo([j \in 1..(k - 1) |->
                                    RMul(prev[j], Rat(Gamma(x, j), 1))], k - 1))
             last == RDiv(num, den)
         IN  [j \in 1..k |->
                 IF j = k THEN last ELSE RSub(prev[j], RMul(last, prev[k - j]))]

\* what the installed statsmodels does at two points where its releases
\* differ: the check of nlags against half the sample size ("none": no check,
\* "gt": nlags > nobs // 2 raises, "ge": nlags >= nobs // 2 raises), and a
\* singular Yule-Walker system (pinv: solved by pseudo-inverse, giving zeros;
\* otherwise LinAlgError)
Builds == [half_check : {"none", "gt", "ge"}, pinv : BOOLEAN]

\* pacf(data, nlags=nlags, alpha=alpha, method='ywm'):
\* 1.0 at lag 0, then the last Yule-Walker coefficient of each order
\* 1..nlags, with intervals of constant width 1/sqrt(nobs) (none at lag 0)
pacf(x, nlags, alpha, build) ==
    LET singular == Gamma(x, 0) = 0
        values == [i \in 1..(nlags + 1) |->
                      IF i = 1 THEN One
                      ELSE IF singular THEN Zero
                      ELSE DurbinLevinson(x, i - 1)[i - 1]]
        var == Rat(1, Len(x))
        confint == [i \in 1..(nlags + 1) |->
                       IF i = 1
                       THEN << BandEnd(values[1], -1, alpha, Zero),
                               BandEnd(values[1], 1, alpha, Zero) >>
                       ELSE << BandEnd(values[i], -1, alpha, var),
                               BandEnd(values[i], 1, alpha, var) >>]
    IN  IF \/ build.half_check = "gt" /\ nlags > Len(x) \div 2
           \/ build.half_check = "ge" /\ nlags >= Len(x) \div 2
        THEN [raised |-> "ValueError", value |-> << >>]
        ELSE IF singular /\ nlags >= 1 /\ ~build.pinv
        THEN [raised |-> "LinAlgError", value |-> << >>]
        ELSE [raised |-> "", value |-> <<values, confint>>]

-----------------------------------------------------------------------------
(* calculate_acf, calculate_pacf *)

Returned(v) == [raised |-> "", value |-> v]
Raised(e) == [raised |-> e, value |-> None]

\* np.arange(n)
Arange(n) == [i \in 1..n |-> i - 1]

\* the dictionary both functions build from the library's (values, confint)
Correlogram(values, confint, alpha) ==
    [values |-> values,
     lags |-> Arange(Len(values)),
     confidence_interval |-> confint,
     lower_bound |-> [i \in 1..Len(confint) |-> Offset(confint[i][1], values[i])],
     upper_bound |-> [i \in 1..Len(confint) |-> Offset(confint[i][2], values[i])],
     alpha |-> alpha]

calculate_acf(data, nlags, alpha) ==
    LET r == acf(data, nlags, alpha)
    IN  IF r.raised # "" THEN Raised("ValueError")
        ELSE LET c == Correlogram(r.value[1], r.value[2], alpha)
             IN  Returned([acf_values |-> c.values,
                           lags |-> c.lags,
                           confidence_interval |-> c.confidence_interval,
                           lower_bound |-> c.lower_bound,
                           upper_bound |-> c.upper_bound,
                           alpha |-> c.alpha])

calculate_pacf(data, nlags, alpha, method, build) ==
    LET r == pacf(data, nlags, alpha, build)
    IN  IF r.raised # "" THEN Raised("ValueError")
        ELSE LET c == Correlogram(r.value[1], r.value[2], alpha)
             IN  Returned([pacf_values |-> c.values,
                           lags |-> c.lags,
                           confidence_interval |-> c.confidence_interval,
                           lower_bound |-> c.lower_bound,
                           upper_bound |-> c.upper_bound,
                           alpha |-> c.alpha,
                           method |-> method])

-----------------------------------------------------------------------------
(* test_stationarity, ljung_box_test *)

\* what adfuller(data.dropna()) or kpss(data.dropna()) does: it raises, or it
\* returns a tuple holding the statistic, the p-value and the critical values
\* (the statistic and the critical values are not interpreted)
TestOutcomes ==
    {[raised |-> TRUE, p_value |-> 0]} \cup {[raised |-> FALSE, p_value |-> p] : p \in PValues}

\* {'error': str(e)}
ErrorMarker == [error |-> "str(e)"]

\* the interpretations are the code's Chinese words for "stationary" /
\* "non-stationary" and "white noise" / "not white noise"

\* adf_result[1] <= 0.05
AdfEntryInclusive(adf) ==
    IF adf.raised THEN ErrorMarker
    ELSE [statistic |-> "adf_result[0]",
          p_value |-> adf.p_value,
          critical_values |-> "adf_result[4]",
          is_stationary |-> adf.p_value <= 50,
          interpretation |-> IF adf.p_value <= 50 THEN "stationary" ELSE "non-stationary"]

\* the interpretation is taken with <= where the flag is taken with <
AdfEntryInterpretationInclusive(adf) ==
    IF adf.raised THEN ErrorMarker
    ELSE [statistic |-> "adf_result[0]",
          p_value |-> adf.p_value,
          critical_values |-> "adf_result[4]",
          is_stationary |-> adf.p_value < 50,
          interpretation |-> IF adf.p_value <= 50 THEN "stationary" ELSE "non-stationary"]

\* results['adf']: the try / except around adfuller
AdfEntry(adf) ==
    IF adf.raised THEN ErrorMarker
    ELSE [statistic |-> "adf_result[0]",
          p_value |-> adf.p_value,
          critical_values |-> "adf_result[4]",
          is_stationary |-> adf.p_value < 50,
          interpretation |-> IF adf.p_value < 50 THEN "stationary" ELSE "non-stationary"]

\* kpss_result[1] >= 0.05
KpssEntryInclusive(kpss) ==
    IF kpss.raised THEN ErrorMarker
    ELSE [statistic |-> "kpss_result[0]",
          p_value |-> kpss.p_value,
          critical_values |-> "kpss_result[3]",
          is_stationary |-> kpss.p_value >= 50,
          interpretation |-> IF kpss.p_value >= 50 THEN "stationary" ELSE "non-stationary"]

\* results['kpss']: the try / except around kpss
KpssEntry(kpss) ==
    IF kpss.raised THEN ErrorMarker
    ELSE [statistic |-> "kpss_result[0]",
          p_value |-> kpss.p_value,
          critical_values |-> "kpss_result[3]",
          is_stationary |-> kpss.p_value > 50,
          interpretation |-> IF kpss.p_value > 50 THEN "stationary" ELSE "non-stationary"]

\* the ADF test runs outside any try: its failure ends the call
test_stationarity_AdfUnguarded(data, adf, kpss) ==
    IF adf.raised THEN [raised |-> "Exception", value |-> << >>]
    ELSE [raised |-> "", value |-> [adf |-> AdfEntry(adf), kpss |-> KpssEntry(kpss)]]

test_stationarity(data, adf, kpss) ==
    [raised |-> "", value |-> [adf |-> AdfEntry(adf), kpss |-> KpssEntry(kpss)]]

\* what acorr_ljungbox(data.dropna(), lags=lags, return_df=True) does: it
\* raises, or it returns a frame with one row per lag 1..lags holding lb_stat
\* and lb_pvalue (lb_stat is not interpreted)
LjungBoxOutcomes(lags) ==
    {[raised |-> TRUE, lb_pvalue |-> << >>]}
        \cup {[raised |-> FALSE, lb_pvalue |-> ps] : ps \in [1..lags -> PValues]}

\* any(result['lb_pvalue'] > 0.05)
AllAboveAny(p_values) == \E i \in 1..Len(p_values) : p_values[i] > 50

\* all(result['lb_pvalue'] > 0.05)
AllAbove(p_values) == \A i \in 1..Len(p_values) : p_values[i] > 50

ljung_box_test(data, lags, result) ==
    IF result.raised THEN [raised |-> "", value |-> ErrorMarker]
    ELSE [raised |-> "",
          value |-> [statistics |-> [i \in 1..Len(result.lb_pvalue) |-> "lb_stat"],
                     p_values |-> result.lb_pvalue,
                     lags |-> [i \in 1..lags |-> i],
                     is_white_noise |-> AllAbove(result.lb_pvalue),
                     interpretation |-> IF AllAbove(result.lb_pvalue)
                                        THEN "white noise" ELSE "not white noise"]]

-----------------------------------------------------------------------------
(* Data frames and TimeSeriesPreprocessor                                  *)
(* (src/src/data_processing/preprocessor.py)                               *)
(*                                                                         *)
(* A frame is a record of columns, each a sequence with one cell per row:  *)
(* 'date' holds integers (days), 'value' holds fractions, nan where the    *)
(* value is missing.                                                       *)

\* p < q for fractions that are not nan
RLess(p, q) == p.num * q.den < q.num * p.den

NRows(df) == Len(df.value)

\* the positions of the rows mask keeps, in order
RECURSIVE KeptUpTo(_, _)
KeptUpTo(mask, k) ==
    IF k = 0 THEN << >>
    ELSE IF mask[k] THEN Append(KeptUpTo(mask, k - 1), k) ELSE KeptUpTo(mask, k - 1)

\* df[mask]: a new frame with the rows where mask holds, every column kept
SelectRows(df, mask) ==
    LET kept == KeptUpTo(mask, Len(mask))
    IN  [c \in DOMAIN df |-> [i \in 1..Len(kept) |-> df[c][kept[i]]]]

\* df[name] = column on a frame: the column is replaced or added
SetColumn(df, name, column) ==
    [c \in DOMAIN df \cup {name} |-> IF c = name THEN column ELSE df[c]]

\* the position of the last valid cell at or before k, 0 if there is none
RECURSIVE LastValid(_, _)
LastValid(column, k) ==
    IF k = 0 THEN 0
    ELSE IF ~IsNaN(column[k]) THEN k ELSE LastValid(column, k - 1)

\* the position of the first valid cell at or after k, 0 if there is none
RECURSIVE NextValid(_, _)
NextValid(column, k) ==
    IF k > Len(column) THEN 0
    ELSE IF ~IsNaN(column[k]) THEN k ELSE NextValid(column, k + 1)

\* Series.fillna(method='ffill'): cells before the first valid one stay nan
ForwardFilled(column) ==
    [i \in 1..Len(column) |->
        IF LastValid(column, i) = 0 THEN NaN ELSE column[LastValid(column, i)]]

\* Series.fillna(method='bfill'): cells after the last valid one stay nan
BackwardFilled(column) ==
    [i \in 1..Len(column) |->
        IF NextValid(column, i) = 0 THEN NaN ELSE column[NextValid(column, i)]]

\* Series.interpolate(): linear between the valid neighbours, direction
\* forward: cells after the last valid one take its value, cells before the
\* first valid one stay nan
Interpolated(column) ==
    [i \in 1..Len(column) |->
        LET lo == LastValid(column, i)
            hi == NextValid(column, i)
        IN  IF lo = 0 THEN NaN
            ELSE IF hi = 0 THEN column[lo]
            ELSE IF lo = hi THEN column[i]
            ELSE RAdd(column[lo],
                      RMul(RSub(column[hi], column[lo]), Rat(i - lo, hi - lo)))]

\* the valid cells of a column
Valid(column) == SelectSeq(column, LAMBDA q : ~IsNaN(q))

\* Series.mean(): the mean of the valid cells, nan if there is none
Mean(column) ==
    LET valid == Valid(column)
    IN  IF Len(valid) = 0 THEN NaN ELSE RMul(RSumTo(valid, Len(valid)), Rat(1, Len(valid)))

\* Series.fillna(mean_value)
MeanFilled(column) ==
    [i \in 1..Len(column) |->
        IF IsNaN(column[i]) /\ ~IsNaN(Mean(column)) THEN Mean(column) ELSE column[i]]

\* whether the installed pandas still accepts fillna(method=...): releases
\* that removed the keyword raise TypeError
PandasBuilds == [fillna_method : BOOLEAN]

SupportedMethods == {"interpolate", "forward_fill", "backward_fill", "mean", "drop"}

\* handle_missing_values(df, value_column, method): works on df.copy()
handle_missing_values(df, value_column, method, build) ==
    IF method = "drop"
    THEN Returned(SelectRows(df, [i \in 1..NRows(df) |-> ~IsNaN(df[value_column][i])]))
    ELSE IF method = "forward_fill"
    THEN IF build.fillna_method
         THEN Returned(SetColumn(df, value_column, ForwardFilled(df[value_column])))
         ELSE Raised("TypeError")
    ELSE IF method = "backward_fill"
    THEN IF build.fillna_method
         THEN Returned(SetColumn(df, value_column, BackwardFilled(df[value_column])))
         ELSE Raised("TypeError")
    ELSE IF method = "interpolate"
    THEN Returned(SetColumn(df, value_column, Interpolated(df[value_column])))
    ELSE IF method = "mean"
    THEN Returned(SetColumn(df, value_column, MeanFilled(df[value_column])))
    ELSE Raised("ValueError")

\* the valid cells of a column in increasing order
RECURSIVE Inserted(_, _)
Inserted(sorted, q) ==
    IF sorted = << >> THEN <<q>>
    ELSE IF RLess(q, Head(sorted)) THEN <<q>> \o sorted
    ELSE <<Head(sorted)>> \o Inserted(Tail(sorted), q)

RECURSIVE SortedUpTo(_, _)
SortedUpTo(column, k) ==
    IF k = 0 THEN << >> ELSE Inserted(SortedUpTo(column, k - 1), column[k])

\* Series.quantile(q): linear interpolation between the order statistics of
\* the valid cells around position (n - 1) * q; nan if there is none
Quantile(column, q) ==
    LET valid == Valid(column)
        sorted == SortedUpTo(valid, Len(valid))
        h == RMul(Rat(Len(valid) - 1, 1), q)
        below == h.num \div h.den
        fraction == RSub(h, Rat(below, 1))
    IN  IF Len(valid) = 0 THEN NaN
        ELSE IF fraction = Zero THEN sorted[below + 1]
        ELSE RAdd(sorted[below + 1],
                  RMul(fraction, RSub(sorted[below + 2], sorted[below + 1])))

\* (values >= lower_bound) & (values <= upper_bound) for the IQR fences;
\* a comparison with nan is False
IqrMask(column, threshold) ==
    LET Q1 == Quantile(column, Rat(1, 4))
        Q3 == Quantile(column, Rat(3, 4))
        IQR == RSub(Q3, Q1)
        lower_bound == RSub(Q1, RMul(threshold, IQR))
        upper_bound == RAdd(Q3, RMul(threshold, IQR))
    IN  [i \in 1..Len(column) |->
            /\ ~IsNaN(column[i]) /\ ~IsNaN(lower_bound)
            /\ ~RLess(column[i], lower_bound)
            /\ ~RLess(upper_bound, column[i])]

\* np.abs(stats.zscore(values)) < threshold: (v - mean)^2 < threshold^2 * var
\* with the population variance; one nan makes every score nan, and so does
\* a zero variance, and a comparison with nan is False
ZscoreMask(column, threshold) ==
    LET n == Len(column)
        mean == Mean(column)
        squares == [i \in 1..n |-> RMul(RSub(column[i], mean), RSub(column[i], mean))]
        var == RMul(RSumTo(squares, n), Rat(1, n))
    IN  [i \in 1..n |->
            /\ n > 0 /\ Len(Valid(column)) = n
            /\ var # Zero
            /\ RLess(squares[i], RMul(RMul(threshold, threshold), var))]

\* remove_outliers(df, value_column, method, threshold): works on df.copy()
remove_outliers(df, value_column, method, threshold) ==
    IF method = "iqr"
    THEN Returned(SelectRows(df, IqrMask(df[value_column], threshold)))
    ELSE IF method = "zscore"
    THEN Returned(SelectRows(df, ZscoreMask(df[value_column], threshold)))
    ELSE Raised("ValueError")

\* f'{value_column}_diff_{periods}' for value_column = 'value'
DiffColumn(periods) ==
    <<"value_diff_1", "value_diff_2", "value_diff_3", "value_diff_4", "value_diff_5">>[periods]

\* difference_series(df, value_column, periods): df.copy() with the column
\* value_diff_<periods> = value.diff(periods) added
difference_series(df, value_column, periods) ==
    Returned(SetColumn(df, DiffColumn(periods),
                       [i \in 1..NRows(df) |->
                           IF i <= periods THEN NaN
                           ELSE RSub(df[value_column][i], df[value_column][i - periods])]))

\* Series.min(): the smallest valid cell, nan if there is none
Smallest(column) ==
    LET valid == Valid(column)
    IN  IF Len(valid) = 0 THEN NaN ELSE SortedUpTo(valid, Len(valid))[1]

\* np.log(x) of a fraction, kept as the term log(x); log(nan) is nan
Log(x) == [log |-> x]

\* log_transform(df, value_column): df.copy(), its value column shifted to
\* min 1 when the smallest value is <= 0, and the column value_log added
log_transform(df, value_column) ==
    LET min_value == Smallest(df[value_column])
        shifted ==
            IF ~IsNaN(min_value) /\ ~RLess(Zero, min_value)
            THEN SetColumn(df, value_column,
                           [i \in 1..NRows(df) |->
                               RAdd(RSub(df[value_column][i], min_value), One)])
            ELSE df
    IN  Returned(SetColumn(shifted, "value_log",
                           [i \in 1..NRows(df) |-> Log(shifted[value_column][i])]))

\* Series.std(): the sample variance (ddof = 1) of the valid cells whose root
\* it is; nan for fewer than two valid cells
SampleVariance(column) ==
    LET valid == Valid(column)
        n == Len(valid)
        mean == Mean(column)
        squares == [i \in 1..n |-> RMul(RSub(valid[i], mean), RSub(valid[i], mean))]
    IN  IF n < 2 THEN NaN ELSE RMul(RSumTo(squares, n), Rat(1, n - 1))

\* (v - mean) / std, kept as the pair of v - mean and std^2; nan when v or
\* std is nan, and when std is 0 (all valid cells equal: 0 / 0)
Standardized(v, mean, variance) ==
    IF IsNaN(v) \/ IsNaN(variance) \/ variance = Zero
    THEN [centered |-> NaN, variance |-> NaN]
    ELSE [centered |-> RSub(v, mean), variance |-> variance]

\* standardize(df, value_column): df.copy() with the column
\* value_standardized added
standardize(df, value_column) ==
    Returned(SetColumn(df, "value_standardized",
                       [i \in 1..NRows(df) |->
                           Standardized(df[value_column][i], Mean(df[value_column]),
                                        SampleVariance(df[value_column]))]))

-----------------------------------------------------------------------------
(* Calls *)

\* correlograms handed to the advisor: lag 0 is 1.0, then 1..MaxLen
\* coefficients, and the alpha they were computed with
AcfResults ==
    {[acf_values |-> <<1000>> \o s, alpha |-> a] : s \in SeqsOf(Coeffs, 1, MaxLen), a \in Alphas}
PacfResults ==
    {[pacf_values |-> <<1000>> \o s, alpha |-> a] : s \in SeqsOf(Coeffs, 1, MaxLen), a \in Alphas}

\* the calls made on the analyzer
SuggestCalls ==
    {[acf_result |-> a, pacf_result |-> p, max_order |-> m] :
        a \in AcfResults, p \in PacfResults, m \in 0..MaxOrder}

FindCutoffCalls ==
    {[values |-> v, threshold |-> [c |-> t, d |-> 1], max_order |-> m] :
        v \in SeqsOf(ScanCoeffs, 0, MaxLen - 1), t \in ScanThresholds, m \in 0..MaxOrder}

\* calculate_acf(data, nlags, alpha) and calculate_pacf(data, nlags, alpha):
\* method keeps its default 'ywm', as in every call of the application
CorrelogramCalls ==
    {[data |-> x, nlags |-> l, alpha |-> a, method |-> "ywm"] :
        x \in SeqsOf(SeriesValues, 1, MaxSeries), l \in 0..MaxLag, a \in Alphas}

\* test_stationarity(data)
StationarityCalls == {[data |-> x] : x \in SeqsOf(SeriesValues, 1, MaxSeries)}

\* ljung_box_test(data, lags)
LjungBoxCalls ==
    {[data |-> x, lags |-> l] : x \in SeqsOf(SeriesValues, 1, MaxSeries), l \in 1..MaxLjungLags}

\* the value cells of a frame: missing, or a number
Cells == {NaN, Rat(0, 1), Rat(1, 1)}

\* frames with dates 1..n in order and any value cells
Frames ==
    {[date |-> [i \in 1..Len(v) |-> i], value |-> v] : v \in SeqsOf(Cells, 0, MaxRows)}

\* handle_missing_values(df, 'value', method): the five supported methods and
\* one that is not
MissingValuesCalls ==
    {[df |-> f, value_column |-> "value", method |-> m] :
        f \in Frames, m \in SupportedMethods \cup {"median"}}

\* a fresh analyzer (__init__) and one call on it, not yet executed
Init ==
    /\ confidence_level = 50
    /\ calls = 1
    /\ st_data = None /\ st_processed_data = None /\ processed_from = None
    /\ imported = FALSE
    /\ pc = "called"
    /\ ret = Returned(None)
    /\ \/ op = "suggest_arima_order" /\ args \in SuggestCalls
       \/ op = "_find_cutoff" /\ args \in FindCutoffCalls
       \/ op = "calculate_acf" /\ args \in CorrelogramCalls
       \/ op = "calculate_pacf" /\ args \in CorrelogramCalls
       \/ op = "test_stationarity" /\ args \in StationarityCalls
       \/ op = "ljung_box_test" /\ args \in LjungBoxCalls
       \/ op = "handle_missing_values" /\ args \in MissingValuesCalls

SuggestArimaOrder ==
    /\ pc = "called" /\ op = "suggest_arima_order"
    /\ ret' = Returned(suggest_arima_order(args.acf_result, args.pacf_result, args.max_order))
    /\ pc' = "returned"
    /\ UNCHANGED <<op, args, confidence_level, calls, session_state>>

FindCutoff ==
    /\ pc = "called" /\ op = "_find_cutoff"
    /\ ret' = Returned(find_cutoff(args.values, args.threshold, args.max_order))
    /\ pc' = "returned"
    /\ UNCHANGED <<op, args, confidence_level, calls, session_state>>

\* calculate_acf keeps its alpha in self.confidence_level and computes with
\* the one kept by the call before
CalculateAcfKeepsAlpha ==
    /\ pc = "called" /\ op = "calculate_acf"
    /\ ret' = calculate_acf(args.data, args.nlags, confidence_level)
    /\ confidence_level' = args.alpha
    /\ pc' = "returned"
    /\ UNCHANGED <<op, args, calls, session_state>>

CalculateAcf ==
    /\ pc = "called" /\ op = "calculate_acf"
    /\ ret' = calculate_acf(args.data, args.nlags, args.alpha)
    /\ pc' = "returned"
    /\ UNCHANGED <<op, args, confidence_level, calls, session_state>>

CalculatePacf ==
    /\ pc = "called" /\ op = "calculate_pacf"
    /\ \E build \in Builds :
           ret' = calculate_pacf(args.data, args.nlags, args.alpha, args.method, build)
    /\ pc' = "returned"
    /\ UNCHANGED <<op, args, confidence_level, calls, session_state>>

TestStationarity ==
    /\ pc = "called" /\ op = "test_stationarity"
    /\ \E adf \in TestOutcomes, kpss \in TestOutcomes :
           ret' = test_stationarity(args.data, adf, kpss)
    /\ pc' = "returned"
    /\ UNCHANGED <<op, args, confidence_level, calls, session_state>>

LjungBoxTest ==
    /\ pc = "called" /\ op = "ljung_box_test"
    /\ \E result \in LjungBoxOutcomes(args.lags) :
           ret' = ljung_box_test(args.data, args.lags, result)
    /\ pc' = "returned"
    /\ UNCHANGED <<op, args, confidence_level, calls, session_state>>

HandleMissingValues ==
    /\ pc = "called" /\ op = "handle_missing_values"
    /\ \E build \in PandasBuilds :
           ret' = handle_missing_values(args.df, args.value_column, args.method, build)
    /\ pc' = "returned"
    /\ UNCHANGED <<op, args, confidence_level, calls, session_state>>

\* the operations of ACFPACFAnalyzer
AnalyzerNext ==
    \/ SuggestArimaOrder
    \/ FindCutoff
    \/ CalculateAcf
    \/ CalculatePacf
    \/ TestStationarity
    \/ LjungBoxTest

Next ==
    \/ AnalyzerNext
    \/ HandleMissingValues

Spec == Init /\ [][Next]_vars

-----------------------------------------------------------------------------
(* Several calls on one analyzer, as the analysis page and the tests make *)
(* them: calculate_acf, calculate_pacf, suggest_arima_order and           *)
(* test_stationarity on the analyzer built once                           *)

\* the calls of a session: short inputs of every operation
SessionSuggestCalls ==
    {c \in SuggestCalls : /\ Len(c.acf_result.acf_values) = 3
                          /\ Len(c.pacf_result.pacf_values) = 3
                          /\ c.max_order = 2}
SessionFindCutoffCalls ==
    {c \in FindCutoffCalls : Len(c.values) = 2 /\ c.threshold.c = 500 /\ c.max_order = 2}
SessionCorrelogramCalls ==
    {c \in CorrelogramCalls : Len(c.data) = 3 /\ c.nlags = 1}
SessionStationarityCalls == {c \in StationarityCalls : Len(c.data) = 2}
SessionLjungBoxCalls == {c \in LjungBoxCalls : Len(c.data) = 2 /\ c.lags = 1}

\* the next call is made: one of the session's calls with its arguments
Called(o, a) ==
    \/ o = "suggest_arima_order" /\ a \in SessionSuggestCalls
    \/ o = "_find_cutoff" /\ a \in SessionFindCutoffCalls
    \/ o = "calculate_acf" /\ a \in SessionCorrelogramCalls
    \/ o = "calculate_pacf" /\ a \in SessionCorrelogramCalls
    \/ o = "test_stationarity" /\ a \in SessionStationarityCalls
    \/ o = "ljung_box_test" /\ a \in SessionLjungBoxCalls

\* a fresh analyzer and its first call
SessionInit ==
    /\ confidence_level = 50
    /\ calls = 1
    /\ st_data = None /\ st_processed_data = None /\ processed_from = None
    /\ imported = FALSE
    /\ pc = "called"
    /\ ret = Returned(None)
    /\ Called(op, args)

\* after a call has returned, the same analyzer is called again
NewCall ==
    /\ pc = "returned"
    /\ calls < MaxCalls
    /\ calls' = calls + 1
    /\ pc' = "called"
    /\ ret' = Returned(None)
    /\ Called(op', args')
    /\ UNCHANGED <<confidence_level, session_state>>

SessionNext ==
    \/ AnalyzerNext
    \/ NewCall

SessionSpec == SessionInit /\ [][SessionNext]_vars

-----------------------------------------------------------------------------
(* The application: runs of the script src/main.py on one session         *)

\* the positions of the rows in increasing order of date (rows of equal
\* date keep their order)
RECURSIVE InsertedByDate(_, _, _)
InsertedByDate(order, date, k) ==
    IF order = << >> THEN <<k>>
    ELSE IF date[k] < date[Head(order)] THEN <<k>> \o order
    ELSE <<Head(order)>> \o InsertedByDate(Tail(order), date, k)

RECURSIVE DateOrderUpTo(_, _)
DateOrderUpTo(date, k) ==
    IF k = 0 THEN << >> ELSE InsertedByDate(DateOrderUpTo(date, k - 1), date, k)

\* df.sort_values(date_column).reset_index(drop=True)
SortedByDate(df, date_column) ==
    LET order == DateOrderUpTo(df[date_column], Len(df[date_column]))
    IN  [c \in DOMAIN df |-> [i \in 1..Len(order) |-> df[c][order[i]]]]

\* clean_data(df, date_column, value_column): a copy, sorted by date (the
\* cells are dates and numbers already)
clean_data(df, date_column, value_column) == SortedByDate(df, date_column)

\* format_data(df, date_column, value_column): the two columns, named
\* 'date' and 'value', sorted by date
format_data(df, date_column, value_column) ==
    SortedByDate([date |-> df[date_column], value |-> df[value_column]], "date")

\* the files the user uploads: one that pandas cannot read, a table whose
\* value column holds text, and a table of three columns with its rows out
\* of order and a missing value
UploadedFiles ==
    { [readable |-> FALSE, numeric |-> FALSE,
       table |-> [day |-> << >>, amount |-> << >>, note |-> << >>]],
      [readable |-> TRUE, numeric |-> FALSE,
       table |-> [day |-> <<1, 2>>, amount |-> <<NaN, NaN>>, note |-> <<"a", "b">>]],
      [readable |-> TRUE, numeric |-> TRUE,
       table |-> [day |-> <<2, 1>>, amount |-> <<Rat(1, 1), NaN>>, note |-> <<"a", "b">>]] }

\* what create_sample_data returns: n_points rows, dates in order, values
\* with random noise and none missing
SampleFrames ==
    { [date |-> <<1, 2>>, value |-> <<Rat(1, 1), Rat(2, 1)>>],
      [date |-> <<1, 2>>, value |-> <<Rat(2, 1), Rat(0, 1)>>] }

\* the entries of the multiselect, named by the method each one calls
PreprocessingOptions ==
    {"handle_missing_values", "remove_outliers", "difference_series",
     "log_transform", "standardize"}

\* what the multiselect returns: the selected entries in the order selected
Selections ==
    {sel \in SeqsOf(PreprocessingOptions, 0, MaxOptions) :
        \A i, j \in 1..Len(sel) : i # j => sel[i] # sel[j]}

\* one pass of the loop body (lines 159-179) on processed_data, the widgets
\* of the entry left as they are first shown: interpolate (which uses no
\* keyword that a release of pandas lacks), iqr at 1.5, periods 1
Applied(option, df) ==
    IF option = "handle_missing_values"
    THEN handle_missing_values(df, "value", "interpolate",
                               CHOOSE build \in PandasBuilds : TRUE)
    ELSE IF option = "remove_outliers"
    THEN remove_outliers(df, "value", "iqr", Rat(3, 2))
    ELSE IF option = "difference_series"
    THEN difference_series(df, "value", 1)
    ELSE IF option = "log_transform"
    THEN log_transform(df, "value")
    ELSE standardize(df, "value")

\* processed_data after the first k passes of the loop, starting from
\* st.session_state.data.copy(); an exception ends the run
RECURSIVE Preprocessed(_, _, _)
Preprocessed(df, preprocessing_options, k) ==
    IF k = 0 THEN Returned(df)
    ELSE LET before == Preprocessed(df, preprocessing_options, k - 1)
         IN  IF before.raised # "" THEN before
             ELSE Applied(preprocessing_options[k], before.value)

\* lines 78-119: the frame the upload branch stores in st.session_state.data,
\* or None when it stores nothing (no file, load fails, validation fails)
Uploaded(uploaded_file) ==
    IF uploaded_file = None THEN None
    ELSE IF ~uploaded_file[1].readable THEN None
    ELSE IF ~uploaded_file[1].numeric THEN None
    ELSE Some(format_data(clean_data(uploaded_file[1].table, "day", "amount"),
                          "day", "amount"))

\* the script starts on a new session: lines 52-55
AppInit ==
    /\ st_data = None /\ st_processed_data = None /\ processed_from = None
    /\ imported = FALSE
    /\ confidence_level = 50
    /\ calls = 0
    /\ pc = "returned" /\ op = "main" /\ args = None /\ ret = Returned(None)

\* the preprocessed frame is stored under 'data' as well
SessionStateWrittenOverwritesData(new_data, wrote, preprocessing_options) ==
    LET result == IF new_data = None THEN Raised("")
                  ELSE Preprocessed(new_data[1], preprocessing_options,
                                    Len(preprocessing_options))
    IN  /\ imported' = wrote
        /\ IF new_data # None /\ preprocessing_options # << >> /\ result.raised = ""
           THEN /\ st_data' = Some(result.value)
                /\ st_processed_data' = Some(result.value)
                /\ processed_from' = new_data
           ELSE /\ st_data' = new_data
                /\ UNCHANGED <<st_processed_data, processed_from>>

\* what a run writes to the session state: new_data by the import part
\* (lines 110 and 136; the old value when the part stores nothing), then
\* processed_data by the preprocessing part (lines 147-182) when entries
\* are selected and no operation raises
SessionStateWritten(new_data, wrote, preprocessing_options) ==
    LET result == IF new_data = None THEN Raised("")
                  ELSE Preprocessed(new_data[1], preprocessing_options,
                                    Len(preprocessing_options))
    IN  /\ st_data' = new_data
        /\ imported' = wrote
        /\ IF new_data # None /\ preprocessing_options # << >> /\ result.raised = ""
           THEN /\ st_processed_data' = Some(result.value)
                /\ processed_from' = new_data
           ELSE UNCHANGED <<st_processed_data, processed_from>>

\* one run of show_data_import_page: the upload branch, the sample branch
\* with the button clicked, or the sample branch with the button left alone
ShowDataImportPage ==
    /\ \E preprocessing_options \in Selections :
           \/ \E uploaded_file \in {None} \cup {Some(f) : f \in UploadedFiles} :
                  IF Uploaded(uploaded_file) = None
                  THEN SessionStateWritten(st_data, FALSE, preprocessing_options)
                  ELSE SessionStateWritten(Uploaded(uploaded_file), TRUE,
                                           preprocessing_options)
           \/ \E df \in SampleFrames :
                  SessionStateWritten(Some(df), TRUE, preprocessing_options)
           \/ SessionStateWritten(st_data, FALSE, preprocessing_options)
    /\ UNCHANGED <<pc, op, args, ret, confidence_level, calls>>

\* one run of another page (analysis, visualization, model suggestion): the
\* session state is read, never written
ShowOtherPage ==
    /\ imported' = FALSE
    /\ UNCHANGED <<st_data, st_processed_data, processed_from>>
    /\ UNCHANGED <<pc, op, args, ret, confidence_level, calls>>

AppNext ==
    \/ ShowDataImportPage
    \/ ShowOtherPage

AppSpec == AppInit /\ [][AppNext]_vars

-----------------------------------------------------------------------------
(* Properties of suggest_arima_order *)

SuggestReturned == pc = "returned" /\ op = "suggest_arima_order"

Report == ret.value

\* C1: every report returned by suggest_arima_order has a non-empty
\* 'suggestions' list.
C1_SuggestionsNonEmpty ==
    SuggestReturned => Len(Report.suggestions) > 0

\* a report for two correlograms of equal length (as calculate_acf and
\* calculate_pacf produce for the same nlags), with max_order below that length
C1_Witness ==
    /\ SuggestReturned
    /\ Len(args.acf_result.acf_values) = Len(args.pacf_result.pacf_values)
    /\ args.max_order < Len(args.acf_result.acf_values) - 1
    /\ Len(Report.suggestions) = 1

\* C2: when the report has a PACF cutoff and no ACF cutoff, its suggestion
\* list is exactly one entry, model 'AR' with order (pacf_cutoff, 0, 0).
C2_ArWhenOnlyPacfCutsOff ==
    (SuggestReturned /\ Report.pacf_cutoff # None /\ Report.acf_cutoff = None)
        => /\ Len(Report.suggestions) = 1
           /\ Report.suggestions[1].model = "AR"
           /\ Report.suggestions[1].order = <<Report.pacf_cutoff[1], 0, 0>>

\* the PACF cuts off at lag 2 while the ACF stays significant
C2_Witness ==
    /\ SuggestReturned
    /\ Report.pacf_cutoff = Some(2)
    /\ Report.acf_cutoff = None
    /\ Report.suggestions[1].order = <<2, 0, 0>>

\* C3: when the report has an ACF cutoff and no PACF cutoff, its suggestion
\* list is exactly one entry, model 'MA' with order (0, 0, acf_cutoff).
C3_MaWhenOnlyAcfCutsOff ==
    (SuggestReturned /\ Report.acf_cutoff # None /\ Report.pacf_cutoff = None)
        => /\ Len(Report.suggestions) = 1
           /\ Report.suggestions[1].model = "MA"
           /\ Report.suggestions[1].order = <<0, 0, Report.acf_cutoff[1]>>

\* the ACF cuts off at lag 2 while the PACF stays significant
C3_Witness ==
    /\ SuggestReturned
    /\ Report.acf_cutoff = Some(2)
    /\ Report.pacf_cutoff = None
    /\ Report.suggestions[1].order = <<0, 0, 2>>

\* C4: when the report has both cutoffs, it holds an 'ARMA' suggestion with
\* order (pacf_cutoff, 0, acf_cutoff): p from the PACF, q from the ACF, d = 0.
C4_ArmaWhenBothCutOff ==
    (SuggestReturned /\ Report.acf_cutoff # None /\ Report.pacf_cutoff # None)
        => \E i \in 1..Len(Report.suggestions) :
              /\ Report.suggestions[i].model = "ARMA"
              /\ Report.suggestions[i].order =
                     <<Report.pacf_cutoff[1], 0, Report.acf_cutoff[1]>>

\* both cut off, at different lags, so that p and q can be told apart
C4_Witness ==
    /\ SuggestReturned
    /\ Report.acf_cutoff = Some(1)
    /\ Report.pacf_cutoff = Some(2)
    /\ Report.suggestions[1].order = <<2, 0, 1>>

\* C5: when the report has neither cutoff, it holds an 'ARMA' suggestion with
\* order (1, 0, 1), whatever the coefficients and max_order.
C5_DefaultArmaWhenNeitherCutsOff ==
    (SuggestReturned /\ Report.acf_cutoff = None /\ Report.pacf_cutoff = None)
        => \E i \in 1..Len(Report.suggestions) :
              /\ Report.suggestions[i].model = "ARMA"
              /\ Report.suggestions[i].order = <<1, 0, 1>>

\* neither cuts off although max_order lets the scan look at several lags
C5_Witness ==
    /\ SuggestReturned
    /\ args.max_order >= 3
    /\ Report.acf_cutoff = None
    /\ Report.pacf_cutoff = None
    /\ Report.suggestions[1].order = <<1, 0, 1>>

\* p and q of a suggestion
OrderP(s) == s.order[1]
OrderQ(s) == s.order[3]

CutoffsWithin(report, max_order) ==
    /\ report.acf_cutoff # None => report.acf_cutoff[1] <= max_order
    /\ report.pacf_cutoff # None => report.pacf_cutoff[1] <= max_order

OrdersWithin(report, max_order) ==
    \A i \in 1..Len(report.suggestions) :
        /\ OrderP(report.suggestions[i]) <= max_order
        /\ OrderQ(report.suggestions[i]) <= max_order

\* C6 as claimed: for every max_order, no suggestion has p or q greater than
\* max_order and no reported cutoff is greater than max_order.
C6_Original ==
    SuggestReturned
        => OrdersWithin(Report, args.max_order) /\ CutoffsWithin(Report, args.max_order)

\* C6 amended: no reported cutoff is greater than max_order, and for every
\* max_order >= 1 no suggestion has p or q greater than max_order.
C6_OrdersWithinMaxOrder ==
    SuggestReturned
        => /\ CutoffsWithin(Report, args.max_order)
           /\ args.max_order >= 1 => OrdersWithin(Report, args.max_order)

\* a cutoff found at the last lag max_order allows, on a longer correlogram
C6_Witness ==
    /\ SuggestReturned
    /\ args.max_order = 2
    /\ Len(args.pacf_result.pacf_values) > 4
    /\ Report.pacf_cutoff = Some(2)
    /\ OrderP(Report.suggestions[1]) = 2

\* the pattern of a noise-free linear trend, as the advisor sees it: every ACF
\* coefficient at the scanned lags is at or above the threshold; the PACF
\* coefficient is above it at lag 1 and below it at every lag from 2 on
LinearTrendPattern ==
    LET acf_values == Tail(args.acf_result.acf_values)
        pacf_values == Tail(args.pacf_result.pacf_values)
        threshold == Threshold(Len(acf_values))
    IN  /\ Len(pacf_values) >= 2
        /\ args.max_order >= 1
        /\ \A j \in 1..Min(Len(acf_values), args.max_order) :
               ~IsBelow(acf_values[j], threshold)
        /\ ~IsBelow(pacf_values[1], threshold)
        /\ \A j \in 2..Len(pacf_values) : IsBelow(pacf_values[j], threshold)

\* C19 as claimed: on the linear-trend pattern suggest_arima_order reports
\* pacf_cutoff 1 and no acf_cutoff, and selects AR with order (1, 0, 0).
C19_Original ==
    (SuggestReturned /\ LinearTrendPattern)
        => /\ Report.pacf_cutoff = Some(1)
           /\ Report.acf_cutoff = None
           /\ Report.suggestions[1].model = "AR"
           /\ Report.suggestions[1].order = <<1, 0, 0>>

\* what the code reports on the pattern when the scan reaches lag 2: the
\* first insignificant lag, 2, and AR with order (2, 0, 0)
C19_Reported ==
    /\ SuggestReturned /\ LinearTrendPattern
    /\ Len(args.acf_result.acf_values) = Len(args.pacf_result.pacf_values)
    /\ args.max_order >= 2
    /\ Report.pacf_cutoff = Some(2)
    /\ Report.acf_cutoff = None
    /\ Report.suggestions[1].order = <<2, 0, 0>>

-----------------------------------------------------------------------------
(* Properties of _find_cutoff *)

FindCutoffReturned == pc = "returned" /\ op = "_find_cutoff"

\* the confirmation rule at 1-based lag k: the coefficients at 0-based
\* positions k-1, k, k+1, clipped to the sequence, are all below threshold
\* (a direct call passes the threshold itself: threshold.d = 1)
WindowBelow(values, threshold, k) ==
    \A j \in k..Min(k + 2, Len(values)) : Abs(values[j]) < threshold.c

\* k is the smallest lag that satisfies the confirmation rule
SmallestConfirmed(values, threshold, k) ==
    /\ WindowBelow(values, threshold, k)
    /\ \A e \in 1..(k - 1) : ~WindowBelow(values, threshold, e)

\* C7 as claimed: for every max_scan, the smallest lag k that satisfies the
\* confirmation rule is returned.
C7_Original ==
    FindCutoffReturned
        => \A k \in 1..Len(args.values) :
              SmallestConfirmed(args.values, args.threshold, k) => ret.value = Some(k)

\* C7 amended: the smallest lag k that satisfies the confirmation rule is
\* returned when k lies in the scanned lags 1..min(len, max_scan).
C7_SmallestConfirmedWithinScan ==
    FindCutoffReturned
        => \A k \in 1..Min(Len(args.values), args.max_order) :
              SmallestConfirmed(args.values, args.threshold, k) => ret.value = Some(k)

\* lag 2 is returned: lag 1 is significant, lags 2..4 are not
C7_Witness ==
    /\ FindCutoffReturned
    /\ Len(args.values) = 4
    /\ SmallestConfirmed(args.values, args.threshold, 2)
    /\ ret.value = Some(2)

\* C8: _find_cutoff returns None when every coefficient at the scanned
\* positions has absolute value not below the threshold, whatever lies after
\* the scan window.
C8_NoneWhenScanWindowSignificant ==
    (FindCutoffReturned
        /\ \A j \in 1..Min(Len(args.values), args.max_order) :
               Abs(args.values[j]) >= args.threshold.c)
        => ret.value = None

\* the scanned lags are significant and an insignificant one follows the window
C8_Witness ==
    /\ FindCutoffReturned
    /\ args.max_order = 2
    /\ Len(args.values) = 4
    /\ args.threshold.c = 500
    /\ args.values[1] = -600 /\ args.values[2] = 500
    /\ args.values[3] = 100 /\ args.values[4] = 100
    /\ ret.value = None

\* C22: when _find_cutoff returns lag k and at least two coefficients follow
\* position k, the coefficients at k, k+1 and k+2 are all below the threshold:
\* a below-threshold value followed within that window by one at or above
\* the threshold is never the cutoff.
C22_ThreePointConfirmation ==
    FindCutoffReturned
        => \A k \in 1..Len(args.values) :
              (ret.value = Some(k) /\ k + 2 <= Len(args.values))
                  => \A j \in k..(k + 2) : Abs(args.values[j]) < args.threshold.c

\* lag 1 is below the threshold, lag 2 is on it: lag 1 is passed over and the
\* scan returns lag 3
C22_Witness ==
    /\ FindCutoffReturned
    /\ args.threshold.c = 500
    /\ args.values = <<100, 500, 100, 100>>
    /\ ret.value = Some(3)

\* the lags the scan visits
ScannedRange == 1..Min(Len(args.values), args.max_order)

\* lag k is one of the last two scanned lags, it is below the threshold and
\* every scanned lag before it is at or above the threshold
EdgeCandidate(k) ==
    /\ k \in ScannedRange
    /\ k + 1 \notin ScannedRange \/ k + 2 \notin ScannedRange
    /\ Abs(args.values[k]) < args.threshold.c
    /\ \A e \in 1..(k - 1) : Abs(args.values[e]) >= args.threshold.c

\* C23 as claimed: a below-threshold candidate within the last two lags of
\* the scanned range 1..min(len, max_scan) is returned on that point alone,
\* also when max_scan is smaller than the sequence length.
C23_Original ==
    FindCutoffReturned
        => \A k \in 1..Len(args.values) : EdgeCandidate(k) => ret.value = Some(k)

\* what the code does when the sequence goes on after the scanned range: the
\* candidate at the last scanned lag is tested on the window that follows it
C23_Reported ==
    /\ FindCutoffReturned
    /\ args.max_order = 2
    /\ args.threshold.c = 500
    /\ args.values = <<-600, 100, 500, 100>>
    /\ EdgeCandidate(2)
    /\ ret.value = None

\* C24: the report's 'threshold' is 1.96 / sqrt(n), n the number of ACF
\* coefficients after lag 0, whatever alpha either correlogram carries, and
\* both reported cutoffs are the scans of the ACF and of the PACF with it.
C24_OneThresholdFromAcfLength ==
    SuggestReturned
        => /\ Report.threshold = [c |-> 1960, d |-> Len(args.acf_result.acf_values) - 1]
           /\ Report.acf_cutoff =
                  find_cutoff(Tail(args.acf_result.acf_values), Report.threshold, args.max_order)
           /\ Report.pacf_cutoff =
                  find_cutoff(Tail(args.pacf_result.pacf_values), Report.threshold, args.max_order)

\* correlograms computed at alpha = 0.01 and of different lengths: the
\* threshold is 1.96 / sqrt(4), from the four ACF coefficients
C24_Witness ==
    /\ SuggestReturned
    /\ args.acf_result.alpha = 10 /\ args.pacf_result.alpha = 10
    /\ Len(args.acf_result.acf_values) = 5
    /\ Len(args.pacf_result.pacf_values) = 3
    /\ Report.threshold = [c |-> 1960, d |-> 4]

\* C25: _find_cutoff returns None or a lag >= 1, and suggest_arima_order
\* returns exactly one suggestion, never the three-default fallback.
C25_OneSuggestionNeverDefaults ==
    /\ FindCutoffReturned => (ret.value = None \/ ret.value[1] >= 1)
    /\ SuggestReturned
          => /\ Report.acf_cutoff = None \/ Report.acf_cutoff[1] >= 1
             /\ Report.pacf_cutoff = None \/ Report.pacf_cutoff[1] >= 1
             /\ Len(Report.suggestions) = 1
             /\ Report.suggestions # DefaultSuggestions

\* both cut off at lag 1, the smallest lag: the mixed branch appends its one
\* suggestion
C25_Witness ==
    /\ SuggestReturned
    /\ Report.acf_cutoff = Some(1)
    /\ Report.pacf_cutoff = Some(1)
    /\ Len(Report.suggestions) = 1
    /\ Report.suggestions[1].model = "ARMA"

-----------------------------------------------------------------------------
(* Properties of calculate_acf and calculate_pacf *)

AcfReturned == pc = "returned" /\ op = "calculate_acf"
PacfReturned == pc = "returned" /\ op = "calculate_pacf"

\* C9 as claimed: for a series of length n and 1 <= max_lag < n, calculate_acf
\* returns exactly max_lag + 1 coefficients and the one at lag 0 is 1.0.
C9_Original ==
    (AcfReturned /\ 1 <= args.nlags /\ args.nlags < Len(args.data))
        => /\ ret.raised = ""
           /\ Len(ret.value.acf_values) = args.nlags + 1
           /\ ret.value.acf_values[1] = One

\* the coefficients of a returned correlogram
Coefficients == IF op = "calculate_acf" THEN ret.value.acf_values ELSE ret.value.pacf_values

\* C10 as claimed: every correlogram returned by calculate_acf or
\* calculate_pacf for maximum lag L has coefficients, lower_bound, upper_bound
\* and lags of length L + 1.
C10_Original ==
    ((AcfReturned \/ PacfReturned) /\ ret.raised = "")
        => /\ Len(Coefficients) = args.nlags + 1
           /\ Len(ret.value.lower_bound) = args.nlags + 1
           /\ Len(ret.value.upper_bound) = args.nlags + 1
           /\ Len(ret.value.lags) = args.nlags + 1

\* C11 as claimed: calculate_acf and calculate_pacf called with a max_lag
\* outside 1 <= max_lag < len(series) fail and never return a correlogram.
C11_Original ==
    ((AcfReturned \/ PacfReturned)
        /\ (args.nlags < 1 \/ args.nlags >= Len(args.data)))
        => ret.raised # ""

\* every value of the series is the same: its variance is exactly zero
IsConstant(x) == \A i \in 1..Len(x) : x[i] = x[1]

\* C12 as claimed: calculate_acf and calculate_pacf called on a constant
\* series fail instead of returning a correlogram of undefined coefficients.
C12_Original ==
    ((AcfReturned \/ PacfReturned) /\ IsConstant(args.data))
        => ret.raised # ""

\* C13 as claimed: suggest_arima_order fails on correlograms whose coefficient
\* sequences differ in length and raises nothing when the lengths are equal.
C13_Original ==
    SuggestReturned
        => (ret.raised # ""
               <=> Len(args.acf_result.acf_values) # Len(args.pacf_result.pacf_values))

\* the threshold the advisor derives for the analysis a returned correlogram
\* belongs to: calculate_acf and calculate_pacf run with the same nlags, so the
\* ACF of that analysis has as many coefficients as this correlogram
AnalysisThreshold == AdvisorThreshold([acf_values |-> Coefficients, alpha |-> args.alpha])

\* a band end at offset +-z(alpha/2) * sqrt(var) from its coefficient has the
\* half-width 1.96 / sqrt(d) of the threshold: at alpha = 0.05 z is 1.96 (to
\* the two decimals the advisor keeps), which leaves var = 1 / d
SameHalfWidth(e, threshold) ==
    /\ e.alpha = 50
    /\ threshold.c = 1960
    /\ e.var = Rat(1, threshold.d)

\* C18 as claimed: for an analysis at alpha = 0.05 (1 <= max_lag < n, series
\* not constant) the threshold the advisor derives equals the half-width of
\* the band calculate_acf / calculate_pacf report at every lag >= 1.
C18_Original ==
    ((AcfReturned \/ PacfReturned) /\ ret.raised = ""
        /\ args.alpha = 50 /\ ~IsConstant(args.data)
        /\ 1 <= args.nlags /\ args.nlags < Len(args.data))
        => \A i \in 2..Len(Coefficients) :
              /\ SameHalfWidth(ret.value.upper_bound[i], AnalysisThreshold)
              /\ SameHalfWidth(ret.value.lower_bound[i], AnalysisThreshold)

\* what the code does: the PACF band is computed from the series length, the
\* advisor's threshold from the number of lags
C18_Reported ==
    /\ PacfReturned /\ ret.raised = ""
    /\ args.alpha = 50 /\ args.nlags = 1 /\ Len(args.data) = 4
    /\ ~IsConstant(args.data)
    /\ ret.value.upper_bound[2].var = Rat(1, 4)
    /\ AnalysisThreshold = Threshold(1)

-----------------------------------------------------------------------------
(* Properties of test_stationarity and ljung_box_test *)

StationarityReturned == pc = "returned" /\ op = "test_stationarity"
LjungBoxReturned == pc = "returned" /\ op = "ljung_box_test"

IsErrorMarker(entry) == DOMAIN entry = {"error"}
IsFullVerdict(entry) ==
    DOMAIN entry = {"statistic", "p_value", "critical_values", "is_stationary", "interpretation"}

\* C14: test_stationarity never raises; its result has an 'adf' and a 'kpss'
\* entry, each a full verdict or an error marker, whether or not the other
\* test failed.
C14_BothTestsAlwaysReported ==
    StationarityReturned
        => /\ ret.raised = ""
           /\ DOMAIN ret.value = {"adf", "kpss"}
           /\ IsErrorMarker(ret.value.adf) \/ IsFullVerdict(ret.value.adf)
           /\ IsErrorMarker(ret.value.kpss) \/ IsFullVerdict(ret.value.kpss)

\* the ADF test failed and the KPSS verdict is reported all the same
C14_Witness ==
    /\ StationarityReturned
    /\ IsErrorMarker(ret.value.adf)
    /\ IsFullVerdict(ret.value.kpss)

\* C15: a computed ADF verdict has is_stationary exactly when p_value < 0.05;
\* at p_value = 0.05 it is non-stationary.
C15_AdfStationaryBelowFivePercent ==
    (StationarityReturned /\ IsFullVerdict(ret.value.adf))
        => (ret.value.adf.is_stationary <=> ret.value.adf.p_value < 50)

\* an ADF p-value of exactly 0.05, reported as non-stationary
C15_Witness ==
    /\ StationarityReturned
    /\ IsFullVerdict(ret.value.adf)
    /\ ret.value.adf.p_value = 50
    /\ ~ret.value.adf.is_stationary

\* C16: a computed KPSS verdict is non-stationary exactly when p_value <= 0.05;
\* at p_value = 0.05 both tests report non-stationary; the two verdicts are
\* separate entries of the result.
C16_KpssNonStationaryUpToFivePercent ==
    (StationarityReturned /\ IsFullVerdict(ret.value.kpss))
        => /\ ~ret.value.kpss.is_stationary <=> ret.value.kpss.p_value <= 50
           /\ (IsFullVerdict(ret.value.adf)
                  /\ ret.value.adf.p_value = 50 /\ ret.value.kpss.p_value = 50)
                 => ~ret.value.adf.is_stationary /\ ~ret.value.kpss.is_stationary
           /\ DOMAIN ret.value = {"adf", "kpss"}

\* both p-values are exactly 0.05 and both verdicts are non-stationary
C16_Witness ==
    /\ StationarityReturned
    /\ IsFullVerdict(ret.value.adf) /\ IsFullVerdict(ret.value.kpss)
    /\ ret.value.adf.p_value = 50 /\ ret.value.kpss.p_value = 50
    /\ ~ret.value.adf.is_stationary /\ ~ret.value.kpss.is_stationary

\* C17: a computed Ljung-Box result has one p-value per lag 1..lags, and
\* is_white_noise holds exactly when every p-value is above 0.05.
C17_WhiteNoiseIffAllAbove ==
    (LjungBoxReturned /\ ~IsErrorMarker(ret.value))
        => /\ Len(ret.value.p_values) = args.lags
           /\ ret.value.lags = [i \in 1..args.lags |-> i]
           /\ ret.value.is_white_noise
                 <=> \A i \in 1..args.lags : ret.value.p_values[i] > 50

\* a single p-value at 0.05 among larger ones: not white noise
C17_Witness ==
    /\ LjungBoxReturned
    /\ ~IsErrorMarker(ret.value)
    /\ args.lags = 3
    /\ ret.value.p_values = <<100, 50, 100>>
    /\ ~ret.value.is_white_noise

\* C28: in every verdict without an error the flag and the interpretation
\* agree: "stationary" exactly when is_stationary (ADF, KPSS), "white noise"
\* exactly when is_white_noise (Ljung-Box).
C28_FlagAndInterpretationAgree ==
    /\ (StationarityReturned /\ IsFullVerdict(ret.value.adf))
          => (ret.value.adf.interpretation = "stationary" <=> ret.value.adf.is_stationary)
    /\ (StationarityReturned /\ IsFullVerdict(ret.value.kpss))
          => (ret.value.kpss.interpretation = "stationary" <=> ret.value.kpss.is_stationary)
    /\ (LjungBoxReturned /\ ~IsErrorMarker(ret.value))
          => (ret.value.interpretation = "white noise" <=> ret.value.is_white_noise)

\* both p-values are exactly 0.05: both flags are false and both
\* interpretations read non-stationary
C28_Witness ==
    /\ StationarityReturned
    /\ IsFullVerdict(ret.value.adf) /\ IsFullVerdict(ret.value.kpss)
    /\ ret.value.adf.p_value = 50 /\ ret.value.kpss.p_value = 50
    /\ ret.value.adf.interpretation = "non-stationary" /\ ~ret.value.adf.is_stationary
    /\ ret.value.kpss.interpretation = "non-stationary" /\ ~ret.value.kpss.is_stationary

-----------------------------------------------------------------------------
(* Properties of handle_missing_values *)

MissingValuesReturned == pc = "returned" /\ op = "handle_missing_values"

HasMissing(column) == \E i \in 1..Len(column) : IsNaN(column[i])

\* C21 as claimed: with a supported method handle_missing_values returns a
\* frame without a missing value in the value column, wherever the missing
\* values of the input lie; with any other method it raises ValueError.
C21_Original ==
    MissingValuesReturned
        => IF args.method \in SupportedMethods
           THEN ret.raised = "" /\ ~HasMissing(ret.value.value)
           ELSE ret.raised = "ValueError"

\* what the code returns for 'interpolate' when the first row is missing:
\* the first row is still missing
C21_Reported ==
    /\ MissingValuesReturned
    /\ args.method = "interpolate"
    /\ args.df.value = <<NaN, One, NaN>>
    /\ ret.raised = ""
    /\ ret.value.value = <<NaN, One, One>>

-----------------------------------------------------------------------------
(* Frame of the operations *)

\* what the call o(a) returns or raises as the first call on a fresh analyzer
\* (one result for each behaviour of the library underneath)
FreshResults(o, a) ==
    CASE o = "suggest_arima_order" ->
             {Returned(suggest_arima_order(a.acf_result, a.pacf_result, a.max_order))}
      [] o = "_find_cutoff" ->
             {Returned(find_cutoff(a.values, a.threshold, a.max_order))}
      [] o = "calculate_acf" ->
             {calculate_acf(a.data, a.nlags, a.alpha)}
      [] o = "calculate_pacf" ->
             {calculate_pacf(a.data, a.nlags, a.alpha, a.method, b) : b \in Builds}
      [] o = "test_stationarity" ->
             {test_stationarity(a.data, adf, kpss) : adf \in TestOutcomes, kpss \in TestOutcomes}
      [] o = "ljung_box_test" ->
             {ljung_box_test(a.data, a.lags, r) : r \in LjungBoxOutcomes(a.lags)}

\* C20: whatever was called on the analyzer before, an operation leaves its
\* arguments (the series, the correlograms) and the analyzer's state as they
\* were, and returns what the same call returns on a fresh analyzer.
C20_OperationsArePure ==
    [][/\ confidence_level' = confidence_level
       /\ pc = "called" => /\ op' = op /\ args' = args
                            /\ pc' = "returned"
                            /\ ret' \in FreshResults(op, args)]_vars

\* the third call on an analyzer, a calculate_acf at alpha = 0.01, has
\* returned, and the analyzer is as __init__ left it
C20_Witness ==
    /\ calls = 3
    /\ pc = "returned" /\ op = "calculate_acf"
    /\ args.alpha = 10
    /\ ret = calculate_acf(args.data, args.nlags, args.alpha)
    /\ confidence_level = 50

-----------------------------------------------------------------------------
(* Properties of the session state *)

\* C26 as claimed: in every session state processed_data is None or was
\* computed from the current data.
C26_Original ==
    st_processed_data # None => processed_from = st_data

\* C27: a run of the script that imports or generates nothing leaves
\* st.session_state.data as it was, whatever preprocessing it applies; a run
\* that imports or generates stores the frame imported or generated, not a
\* preprocessed one.
C27_PreprocessingLeavesDataUnchanged ==
    [][/\ ~imported' => st_data' = st_data
       /\ imported' => \/ st_data' \in {Some(df) : df \in SampleFrames}
                        \/ st_data' \in {Uploaded(Some(f)) : f \in UploadedFiles}]_vars

\* a run that applied two operations, the log transform (which shifts the
\* value column) and the differencing, to data with a zero in it: the data
\* still has its two columns and its zero
C27_Witness ==
    /\ ~imported
    /\ st_data = Some([date |-> <<1, 2>>, value |-> <<Rat(2, 1), Rat(0, 1)>>])
    /\ st_processed_data # None
    /\ processed_from = st_data
    /\ DOMAIN st_processed_data[1] = {"date", "value", "value_log", "value_diff_1"}
    /\ st_processed_data[1].value = <<Rat(3, 1), Rat(1, 1)>>

====
